---- MODULE Spec2Model ----
(***************************************************************************)
(* A model of ck2.py, the DARC contest calendar grabber: the row scan of   *)
(* scrape_all_contests with its tracked date range, the de-duplication,    *)
(* filter_events, format_and_print_events and export_to_ics, run by main   *)
(* as one sequential pipeline.                                             *)
(*                                                                         *)
(* Text is a sequence of one-character strings, so that split, strip,      *)
(* count, lower, replace and the substring test are computed as Python     *)
(* computes them.  dateutil's parser.parse is modelled by its lexer and    *)
(* its token rules for the text the rows below carry: digits, '.', ':',    *)
(* blanks and words that are no month, weekday, am/pm, h/m/s or jump word. *)
(***************************************************************************)
EXTENDS Integers, Sequences, FiniteSets, TLC

\* ------------------------------------------------------------------ text

Digits == {"0", "1", "2", "3", "4", "5", "6", "7", "8", "9"}
Upper  == {"B", "C", "S", "T", "W", "Z"}
Lower  == {"a", "b", "c", "e", "n", "o", "s", "t", "w", "x", "z"}
NBSP   == "nbsp"

isnum(c)   == c \in Digits
isword(c)  == c \in Upper \cup Lower
isspace(c) == c \in {" ", NBSP}

DigitVal(c) ==
    CASE c = "0" -> 0 [] c = "1" -> 1 [] c = "2" -> 2 [] c = "3" -> 3
      [] c = "4" -> 4 [] c = "5" -> 5 [] c = "6" -> 6 [] c = "7" -> 7
      [] c = "8" -> 8 [] c = "9" -> 9

DigitChar(n) ==
    CASE n = 0 -> "0" [] n = 1 -> "1" [] n = 2 -> "2" [] n = 3 -> "3"
      [] n = 4 -> "4" [] n = 5 -> "5" [] n = 6 -> "6" [] n = 7 -> "7"
      [] n = 8 -> "8" [] n = 9 -> "9"

\* str.lower() on one character
LowerChar(c) ==
    CASE c = "B" -> "b" [] c = "C" -> "c" [] c = "S" -> "s" [] c = "T" -> "t"
      [] c = "W" -> "w" [] c = "Z" -> "z" [] OTHER -> c

\* str.lower()
lower(s) == [i \in 1..Len(s) |-> LowerChar(s[i])]

\* str.replace(old, new) for a one-character old; new is a text
RECURSIVE replace(_, _, _)
replace(s, old, new) ==
    IF s = <<>> THEN <<>>
    ELSE (IF Head(s) = old THEN new ELSE <<Head(s)>>) \o replace(Tail(s), old, new)

\* str.count(c) for a one-character c
count(s, c) == Cardinality({i \in 1..Len(s) : s[i] = c})

\* str.find(c) for a one-character c, as a 1-based index, 0 when absent
find(s, c) ==
    IF \E i \in 1..Len(s) : s[i] = c
    THEN CHOOSE i \in 1..Len(s) : s[i] = c /\ \A j \in 1..(i - 1) : s[j] # c
    ELSE 0

\* str.strip()
RECURSIVE lstrip(_)
lstrip(s) == IF s # <<>> /\ isspace(Head(s)) THEN lstrip(Tail(s)) ELSE s

RECURSIVE rstrip(_)
rstrip(s) ==
    IF s # <<>> /\ isspace(s[Len(s)]) THEN rstrip(SubSeq(s, 1, Len(s) - 1)) ELSE s

strip(s) == rstrip(lstrip(s))

\* str.split(c, 1): one or two parts
split1(s, c) ==
    LET i == find(s, c)
    IN  IF i = 0 THEN <<s>>
        ELSE <<SubSeq(s, 1, i - 1), SubSeq(s, i + 1, Len(s))>>

\* str.split(c)[-1]: the text after the last c
lastpart(s, c) ==
    IF count(s, c) = 0 THEN s
    ELSE LET i == CHOOSE k \in 1..Len(s) :
                      s[k] = c /\ \A j \in (k + 1)..Len(s) : s[j] # c
         IN  SubSeq(s, i + 1, Len(s))

\* str.partition(c): <<head, sep, tail>>
partition(s, c) ==
    LET i == find(s, c)
    IN  IF i = 0 THEN <<s, <<>>, <<>>>>
        ELSE <<SubSeq(s, 1, i - 1), <<c>>, SubSeq(s, i + 1, Len(s))>>

\* Python's `sub in s` on text
contains(s, sub) ==
    \E i \in 1..(Len(s) - Len(sub) + 1) : SubSeq(s, i, i + Len(sub) - 1) = sub

isdigit(s) == s # <<>> /\ \A i \in 1..Len(s) : isnum(s[i])

\* int() of a text of digits
RECURSIVE int(_)
int(s) == IF s = <<>> THEN 0 ELSE 10 * int(SubSeq(s, 1, Len(s) - 1)) + DigitVal(s[Len(s)])

\* float() accepts the token: digits with at most one '.', at least one digit
isfloat(s) ==
    /\ \A i \in 1..Len(s) : isnum(s[i]) \/ s[i] = "."
    /\ count(s, ".") <= 1
    /\ \E i \in 1..Len(s) : isnum(s[i])

\* int(Decimal(token)): the integer part
intpart(s) == int(split1(s, ".")[1])

\* Decimal(token) has a fraction that is not zero
hasfrac(s) ==
    /\ count(s, ".") = 1
    /\ \E i \in 1..Len(split1(s, ".")[2]) : split1(s, ".")[2][i] # "0"

\* ------------------------------------------------------------ calendar

NoDate == [y |-> 0, m |-> 0, d |-> 0]
NoDateTime == [y |-> 0, m |-> 0, d |-> 0, h |-> 0, mi |-> 0]

isleap(y) == (y % 4 = 0 /\ y % 100 # 0) \/ y % 400 = 0

\* calendar.monthrange(y, m)[1]
DaysInMonth(y, m) ==
    IF m = 2 THEN (IF isleap(y) THEN 29 ELSE 28)
    ELSE IF m \in {4, 6, 9, 11} THEN 30 ELSE 31

\* the datetime constructor accepts the fields
ValidDate(y, m, d) ==
    /\ y \in 1..9999
    /\ m \in 1..12
    /\ d >= 1 /\ d <= DaysInMonth(y, m)

\* ------------------------------------------------- dateutil: the lexer

\* re.split("([.,])", token) without its empty pieces
RECURSIVE SplitDecimal(_)
SplitDecimal(t) ==
    IF t = <<>> THEN <<>>
    ELSE IF Head(t) = "." THEN <<<<".">>>> \o SplitDecimal(Tail(t))
    ELSE LET n == IF find(t, ".") = 0 THEN Len(t) ELSE find(t, ".") - 1
         IN  <<SubSeq(t, 1, n)>> \o SplitDecimal(SubSeq(t, n + 1, Len(t)))

\* _timelex.get_token from position i with the token read so far: the loop
\* over the characters. Gives the token's tokens and the next position.
RECURSIVE ScanToken(_, _, _, _, _)
ScanToken(s, i, token, state, seenletters) ==
    LET emit(seen) ==
            [tokens |-> IF /\ state \in {"a.", "0."}
                           /\ (seen \/ count(token, ".") > 1 \/ token[Len(token)] = ".")
                        THEN SplitDecimal(token)
                        ELSE <<token>>,
             next |-> i]
    IN  IF i > Len(s) THEN emit(seenletters)
        ELSE LET c == s[i]
             IN  CASE state = "a" ->
                        IF isword(c) THEN ScanToken(s, i + 1, Append(token, c), "a", TRUE)
                        ELSE IF c = "." THEN ScanToken(s, i + 1, Append(token, c), "a.", TRUE)
                        ELSE emit(TRUE)
                   [] state = "0" ->
                        IF isnum(c) THEN ScanToken(s, i + 1, Append(token, c), "0", seenletters)
                        ELSE IF c = "." THEN ScanToken(s, i + 1, Append(token, c), "0.", seenletters)
                        ELSE emit(seenletters)
                   [] state = "a." ->
                        IF c = "." \/ isword(c)
                        THEN ScanToken(s, i + 1, Append(token, c), "a.", TRUE)
                        ELSE IF isnum(c) /\ token[Len(token)] = "."
                        THEN ScanToken(s, i + 1, Append(token, c), "0.", TRUE)
                        ELSE emit(TRUE)
                   [] state = "0." ->
                        IF c = "." \/ isnum(c)
                        THEN ScanToken(s, i + 1, Append(token, c), "0.", seenletters)
                        ELSE IF isword(c) /\ token[Len(token)] = "."
                        THEN ScanToken(s, i + 1, Append(token, c), "a.", seenletters)
                        ELSE emit(seenletters)

\* _timelex.split(s) from position i
RECURSIVE timelex(_, _)
timelex(s, i) ==
    IF i > Len(s) THEN <<>>
    ELSE LET c == s[i]
             t == IF isword(c) THEN ScanToken(s, i + 1, <<c>>, "a", FALSE)
                  ELSE IF isnum(c) THEN ScanToken(s, i + 1, <<c>>, "0", FALSE)
                  ELSE IF isspace(c) THEN [tokens |-> <<<<" ">>>>, next |-> i + 1]
                  ELSE [tokens |-> <<<<c>>>>, next |-> i + 1]
         IN  t.tokens \o timelex(s, t.next)

\* ------------------------------------------------ dateutil: the parser

\* parserinfo.JUMP: the separators, and the jump words
JUMP ==
    { <<" ">>, <<".">>, <<",">>, <<";">>, <<"-">>, <<"/">>, <<"'">>,
      <<"a", "t">>, <<"o", "n">>, <<"a", "n", "d">>, <<"a", "d">>, <<"m">>,
      <<"t">>, <<"o", "f">>, <<"s", "t">>, <<"n", "d">>, <<"r", "d">>, <<"t", "h">> }

\* parserinfo.UTCZONE
UTCZONE == { <<"U", "T", "C">>, <<"G", "M", "T">>, <<"Z">>, <<"z">> }

jump(tok) == lower(tok) \in JUMP

\* the parser's _result and _ymd before the first token
NoResult ==
    [ymd |-> <<>>, ystridx |-> 0, century_specified |-> FALSE,
     hour |-> -1, minute |-> -1, tzname |-> FALSE, fail |-> FALSE]

Failed(res) == [res EXCEPT !.fail = TRUE]

\* _ymd.append(val) for a number val, and for a token of digits (isyear:
\* the label 'Y', given to a number above 100 and to more than two digits)
ymd_append(res, n, isyear) ==
    IF isyear /\ res.ystridx # 0 THEN Failed(res)
    ELSE [res EXCEPT !.ymd = Append(@, n),
                     !.ystridx = IF isyear THEN Len(res.ymd) + 1 ELSE @,
                     !.century_specified = @ \/ isyear]

ymd_append_value(res, tok) ==
    ymd_append(res, intpart(tok),
               intpart(tok) > 100 \/ (intpart(tok) = 100 /\ hasfrac(tok)))

ymd_append_repr(res, tok) ==
    IF ~isdigit(tok) THEN Failed(res)
    ELSE ymd_append(res, int(tok), Len(tok) > 2)

\* _could_be_tzname
could_be_tzname(res, tok) ==
    /\ res.hour # -1
    /\ ~res.tzname
    /\ Len(tok) <= 5
    /\ ((\A i \in 1..Len(tok) : tok[i] \in Upper) \/ tok \in UTCZONE)

\* _parse_numeric_token: the result and the index it returns. Of its rules
\* these apply to the tokens read here: 19990101T23[59], HH:MM, a number and
\* a separator, a number before a jump or at the end, a number that could be
\* a day.
parse_numeric_token(l, idx, res) ==
    LET tok == l[idx]
        len_l == Len(l)
    IN  IF /\ Len(res.ymd) = 3 /\ Len(tok) \in {2, 4} /\ res.hour = -1
           /\ (idx + 1 > len_l \/ l[idx + 1] # <<":">>)
        THEN IF ~isdigit(tok) THEN [res |-> Failed(res), idx |-> idx]
             ELSE [res |-> [res EXCEPT !.hour = int(SubSeq(tok, 1, 2)),
                                       !.minute = IF Len(tok) = 4
                                                  THEN int(SubSeq(tok, 3, 4)) ELSE @],
                   idx |-> idx]
        ELSE IF idx + 2 <= len_l /\ l[idx + 1] = <<":">>
        THEN IF ~isfloat(l[idx + 2]) THEN [res |-> Failed(res), idx |-> idx]
             ELSE [res |-> [res EXCEPT !.hour = intpart(tok),
                                       !.minute = intpart(l[idx + 2])],
                   idx |-> idx + 2]
        ELSE IF idx + 1 <= len_l /\ l[idx + 1] \in {<<"-">>, <<"/">>, <<".">>}
        THEN LET r1 == ymd_append_repr(res, tok)
             IN  IF r1.fail THEN [res |-> r1, idx |-> idx]
                 ELSE IF idx + 2 <= len_l /\ ~jump(l[idx + 2])
                 THEN IF ~isdigit(l[idx + 2]) THEN [res |-> Failed(r1), idx |-> idx]
                      ELSE LET r2 == ymd_append_repr(r1, l[idx + 2])
                           IN  IF r2.fail THEN [res |-> r2, idx |-> idx]
                               ELSE IF idx + 3 <= len_l /\ l[idx + 3] = l[idx + 1]
                               THEN IF idx + 4 > len_l
                                    THEN [res |-> Failed(r2), idx |-> idx]
                                    ELSE [res |-> ymd_append_repr(r2, l[idx + 4]),
                                          idx |-> idx + 4]
                               ELSE [res |-> r2, idx |-> idx + 2]
                 ELSE [res |-> r1, idx |-> idx + 1]
        ELSE IF idx + 1 > len_l \/ jump(l[idx + 1])
        THEN [res |-> ymd_append_value(res, tok), idx |-> idx + 1]
        ELSE IF intpart(tok) >= 1 /\ (intpart(tok) < 31 \/ (intpart(tok) = 31 /\ ~hasfrac(tok)))
        THEN [res |-> ymd_append_value(res, tok), idx |-> idx]
        ELSE [res |-> Failed(res), idx |-> idx]

\* the token loop of _parse
RECURSIVE parse_tokens(_, _, _)
parse_tokens(l, i, res) ==
    IF res.fail \/ i > Len(l) THEN res
    ELSE IF isfloat(l[i])
    THEN LET r == parse_numeric_token(l, i, res)
         IN  parse_tokens(l, r.idx + 1, r.res)
    ELSE IF could_be_tzname(res, l[i])
    THEN parse_tokens(l, i + 1, [res EXCEPT !.tzname = TRUE])
    ELSE IF ~jump(l[i]) THEN Failed(res)
    ELSE parse_tokens(l, i + 1, res)

\* _ymd.resolve_ymd without month names: <<year, month, day>>, -1 for None,
\* and whether it raised
resolve_ymd(res, dayfirst) ==
    LET v == res.ymd
        n == Len(v)
        out(y, m, d) == [fail |-> FALSE, y |-> y, m |-> m, d |-> d]
    IN  IF n > 3 THEN [fail |-> TRUE, y |-> -1, m |-> -1, d |-> -1]
        ELSE IF n = 0 THEN out(-1, -1, -1)
        ELSE IF n = 1
        THEN IF res.ystridx = 1 \/ v[1] > 31 THEN out(v[1], -1, -1)
             ELSE out(-1, -1, v[1])
        ELSE IF n = 2
        THEN IF v[1] > 31 THEN out(v[1], v[2], -1)
             ELSE IF v[2] > 31 THEN out(v[2], v[1], -1)
             ELSE IF dayfirst /\ v[2] <= 12 THEN out(-1, v[2], v[1])
             ELSE out(-1, v[1], v[2])
        ELSE IF v[1] > 31 \/ res.ystridx = 1
        THEN IF dayfirst /\ v[3] <= 12 THEN out(v[1], v[3], v[2])
             ELSE out(v[1], v[2], v[3])
        ELSE IF v[1] > 12 \/ (dayfirst /\ v[2] <= 12) THEN out(v[3], v[2], v[1])
        ELSE out(v[3], v[1], v[2])

\* parserinfo.convertyear, the parser made in the year `now`
convertyear(year, century_specified, now) ==
    IF year < 100 /\ ~century_specified
    THEN LET y == year + (now \div 100) * 100
         IN  IF y >= now + 50 THEN y - 100
             ELSE IF y < now - 50 THEN y + 100
             ELSE y
    ELSE year

ParseError == [ok |-> FALSE, y |-> 0, m |-> 0, d |-> 0, h |-> 0, mi |-> 0]

\* _build_naive: the default's fields replaced by the parsed ones, the
\* default day cut to the month's length when no day was parsed
build_naive(res, year, month, d, today) ==
    LET day == IF d # -1 THEN d
               ELSE IF month \in 1..12 /\ today.d > DaysInMonth(year, month)
               THEN DaysInMonth(year, month)
               ELSE today.d
        hour == IF res.hour = -1 THEN 0 ELSE res.hour
        minute == IF res.minute = -1 THEN 0 ELSE res.minute
    IN  IF ValidDate(year, month, day) /\ hour \in 0..23 /\ minute \in 0..59
        THEN [ok |-> TRUE, y |-> year, m |-> month, d |-> day, h |-> hour, mi |-> minute]
        ELSE ParseError

\* the end of parser.parse: no result, an empty result, or the datetime
parsed(res, ymd, today) ==
    IF res.fail \/ ymd.fail THEN ParseError
    ELSE IF res.ymd = <<>> /\ res.hour = -1 THEN ParseError
    ELSE build_naive(res,
                     IF ymd.y = -1 THEN today.y
                     ELSE convertyear(ymd.y, res.century_specified, today.y),
                     IF ymd.m = -1 THEN today.m ELSE ymd.m,
                     ymd.d, today)

resolved(res, dayfirst, today) == parsed(res, resolve_ymd(res, dayfirst), today)

\* parser.parse(timestr, dayfirst=...) with today as the default: the
\* datetime, or ok = FALSE where it raises
parse(timestr, dayfirst, today) ==
    resolved(parse_tokens(timelex(timestr, 1), 1, NoResult), dayfirst, today)

\* ------------------------------------------------------- the page's rows

\* A table row as the scan reads it: the number of its <td> cells, whether
\* the first cell holds a <strong> and its text, whether it holds a link and
\* its text, and the text of the time, mode and note cells.
Row(ntds, hasStrong, strong, hasLink, link, time, mode, note) ==
    [ntds |-> ntds, hasStrong |-> hasStrong, strong |-> strong,
     hasLink |-> hasLink, link |-> link, time |-> time, mode |-> mode, note |-> note]

NoRow == Row(0, FALSE, <<>>, FALSE, <<>>, <<>>, <<>>, <<>>)

HeaderRow(txt) == Row(1, TRUE, txt, FALSE, <<>>, <<>>, <<>>, <<>>)
ContestRow(ntds, link, time, mode, note) == Row(ntds, FALSE, <<>>, TRUE, link, time, mode, note)

TestContest == <<"T", "e", "s", "t", " ", "C", "o", "n", "t", "e", "s", "t">>
OtherContest == <<"W", "W", " ", "T", "e", "s", "t">>
CW == <<"C", "W">>
SSB == <<"S", "S", "B">>
CWSSB == <<"C", "W", " ", "S", "S", "B">>
ANote == <<"n", "e", "w">>

\* "Sa 06.-So 07.01."
HdrShortRange ==
    <<"S", "a", " ", "0", "6", ".", "-", "S", "o", " ", "0", "7", ".", "0", "1", ".">>
\* "06.01.-07.01."
HdrPlainRange == <<"0", "6", ".", "0", "1", ".", "-", "0", "7", ".", "0", "1", ".">>
\* "06.01."
HdrPlainDay == <<"0", "6", ".", "0", "1", ".">>
\* "Sa. 06.01 - So. 07.01.2024"
HdrRange ==
    <<"S", "a", ".", " ", "0", "6", ".", "0", "1", " ", "-", " ",
      "S", "o", ".", " ", "0", "7", ".", "0", "1", ".", "2", "0", "2", "4">>
\* "Sa. 30.06 - So. 01.07.2024"
HdrJuneJuly ==
    <<"S", "a", ".", " ", "3", "0", ".", "0", "6", " ", "-", " ",
      "S", "o", ".", " ", "0", "1", ".", "0", "7", ".", "2", "0", "2", "4">>
\* "Sa.&nbsp;03.05.2025 "
HdrDay ==
    <<"S", "a", ".", NBSP, "0", "3", ".", "0", "5", ".", "2", "0", "2", "5", " ">>
\* "Sa. 06.01.-So. 07.01."
HdrWeekdayRange ==
    <<"S", "a", ".", " ", "0", "6", ".", "0", "1", ".", "-",
      "S", "o", ".", " ", "0", "7", ".", "0", "1", ".">>
\* "xx"
HdrBad == <<"x", "x">>

HeaderTexts ==
    {HdrShortRange, HdrPlainRange, HdrPlainDay, HdrWeekdayRange, HdrRange, HdrJuneJuly,
     HdrDay, HdrBad}

\* "15:00-18:00Z", "15:00 - xx", "xx-18:00", "-18:00", "09:05", "15:00-24:00"
TimeRange == <<"1", "5", ":", "0", "0", "-", "1", "8", ":", "0", "0", "Z">>
TimeBadEnd == <<"1", "5", ":", "0", "0", " ", "-", " ", "x", "x">>
TimeBadStart == <<"x", "x", "-", "1", "8", ":", "0", "0">>
TimeNoStart == <<"-", "1", "8", ":", "0", "0">>
TimeStartOnly == <<"0", "9", ":", "0", "5">>
TimeEnd24 == <<"1", "5", ":", "0", "0", "-", "2", "4", ":", "0", "0">>

Rows ==
    {HeaderRow(t) : t \in HeaderTexts}
    \cup { NoRow,
           Row(1, FALSE, <<>>, FALSE, <<>>, <<>>, <<>>, <<>>),
           ContestRow(4, TestContest, TimeRange, CW, <<>>),
           ContestRow(4, TestContest, TimeRange, SSB, ANote),
           ContestRow(4, OtherContest, TimeBadEnd, SSB, <<>>),
           ContestRow(3, OtherContest, TimeBadStart, CW, <<>>),
           ContestRow(3, OtherContest, TimeNoStart, CW, <<>>),
           ContestRow(2, OtherContest, TimeStartOnly, <<>>, <<>>),
           ContestRow(4, OtherContest, TimeEnd24, CWSSB, ANote),
           ContestRow(1, TestContest, <<>>, <<>>, <<>>) }

\* date.today(): the days the program is run on
Todays ==
    { [y |-> 2025, m |-> 3, d |-> 15], [y |-> 2024, m |-> 7, d |-> 31] }

\* ------------------------------------------------- scrape_all_contests

\* d.replace(year=current_year), NoDate where it raises
replace_year(d, current_year) ==
    IF d.ok /\ ValidDate(current_year, d.m, d.d)
    THEN [y |-> current_year, m |-> d.m, d |-> d.d]
    ELSE NoDate

\* the part of a header segment after its first '.', or all of it
date_part(segment) ==
    LET parts1 == split1(segment, ".")
    IN  IF Len(parts1) > 1 THEN parts1[2] ELSE parts1[1]

\* the year borrowed from the second segment: the text after its last '.'
borrowed_year(parts) == lastpart(strip(parts[2]), ".")

\* the first date fragment of a header text, as handed to the parser
date_part1(parts) ==
    LET dp == date_part(strip(parts[1]))
    IN  IF count(dp, ".") < 2 /\ Len(parts) > 1
        THEN dp \o <<".">> \o borrowed_year(parts)
        ELSE dp

\* the second date fragment of a header text, as handed to the parser
date_part2(parts) ==
    LET dp == date_part(strip(parts[2]))
    IN  IF count(dp, ".") < 2 THEN dp \o <<".">> \o borrowed_year(parts) ELSE dp

\* current_end_date after a header: the second date, or the start date when
\* there is no second segment or it does not parse
header_end(parts, start, d2) ==
    IF Len(parts) > 1 /\ d2 # NoDate THEN d2 ELSE start

header_pair(parts, start, today) ==
    [start |-> start,
     end |-> header_end(parts, start,
                        IF Len(parts) > 1
                        THEN replace_year(parse(date_part2(parts), TRUE, today), today.y)
                        ELSE NoDate)]

header_parts(parts, today) ==
    header_pair(parts, replace_year(parse(date_part1(parts), TRUE, today), today.y), today)

\* the header branch of the row loop: the tracked pair it leaves
header_dates(strong, today) ==
    header_parts(split1(replace(strip(strong), NBSP, <<" ">>), "-"), today)

\* datetime.combine(d, parser.parse(s).time())
combine(d, t) == [y |-> d.y, m |-> d.m, d |-> d.d, h |-> t.h, mi |-> t.mi]

\* the texts a contest row is read into
split_time(title, p, mode, note) ==
    [title |-> title, start_str |-> strip(p[1]), end_str |-> strip(p[3]),
     mode |-> mode, note |-> note]

row_cells(row) ==
    split_time(strip(row.link),
               partition(IF row.ntds > 1 THEN replace(strip(row.time), NBSP, <<" ">>)
                         ELSE <<>>, "-"),
               IF row.ntds > 2 THEN strip(row.mode) ELSE <<>>,
               IF row.ntds > 3 THEN strip(row.note) ELSE <<>>)

\* row_event with one except for both parses taken to drop the whole row:
\* a failing end parse also clears start_dt
row_event_all_or_nothing(c, t1, t2, start, end) ==
    [title |-> c.title,
     start_dt |-> IF c.start_str # <<>> /\ t1.ok /\ (c.end_str = <<>> \/ t2.ok)
                  THEN combine(start, t1) ELSE NoDateTime,
     end_dt |-> IF (c.start_str = <<>> \/ t1.ok) /\ c.end_str # <<>> /\ t2.ok
                THEN combine(IF end # NoDate THEN end ELSE start, t2)
                ELSE NoDateTime,
     mode |-> c.mode,
     note |-> c.note]

\* the try block: start_dt and end_dt from the two parses t1 and t2; a
\* failing start parse leaves both None, a failing end parse end_dt alone
row_event(c, t1, t2, start, end) ==
    [title |-> c.title,
     start_dt |-> IF c.start_str # <<>> /\ t1.ok THEN combine(start, t1) ELSE NoDateTime,
     end_dt |-> IF (c.start_str = <<>> \/ t1.ok) /\ c.end_str # <<>> /\ t2.ok
                THEN combine(IF end # NoDate THEN end ELSE start, t2)
                ELSE NoDateTime,
     mode |-> c.mode,
     note |-> c.note]

\* `if start_dt: events.append(...)`
emitted(e) == [emit |-> e.start_dt # NoDateTime, event |-> e]

cells_event(c, start, end, today) ==
    emitted(row_event(c, parse(c.start_str, FALSE, today),
                      parse(c.end_str, FALSE, today), start, end))

\* the contest branch of the row loop: the event of a row with a link, read
\* while start and end are tracked; emit tells whether it is appended
contest_event(row, start, end, today) == cells_event(row_cells(row), start, end, today)

\* the tracked pair and the events after the row loop's body has read r
scan_state(start, end, evs) == [start |-> start, end |-> end, events |-> evs]

after_header(h, evs) == scan_state(h.start, h.end, evs)

after_contest(c, start, end, evs) ==
    scan_state(start, end, IF c.emit THEN Append(evs, c.event) ELSE evs)

\* row_step with a reset of the tracked pair on every row that yields no
\* event
row_step_reset(r, start, end, evs, today) ==
    IF r.ntds = 0 THEN scan_state(start, end, evs)
    ELSE IF r.hasStrong THEN after_header(header_dates(r.strong, today), evs)
    ELSE IF r.hasLink /\ start # NoDate
    THEN after_contest(contest_event(r, start, end, today), start, end, evs)
    ELSE scan_state(NoDate, NoDate, evs)

\* the body of `for row in rows`
row_step(r, start, end, evs, today) ==
    IF r.ntds = 0 THEN scan_state(start, end, evs)
    ELSE IF r.hasStrong THEN after_header(header_dates(r.strong, today), evs)
    ELSE IF r.hasLink /\ start # NoDate
    THEN after_contest(contest_event(r, start, end, today), start, end, evs)
    ELSE scan_state(start, end, evs)

\* ---------------------------------------------------------------- main

\* the de-duplication loop of main: seen, unique after the events from i on
RECURSIVE dedupe_from(_, _, _, _)
dedupe_from(evs, i, seen, uniq) ==
    IF i > Len(evs) THEN uniq
    ELSE LET key == <<evs[i].title, evs[i].start_dt>>
         IN  IF key \notin seen
             THEN dedupe_from(evs, i + 1, seen \cup {key}, Append(uniq, evs[i]))
             ELSE dedupe_from(evs, i + 1, seen, uniq)

\* the de-duplication with the title alone as the key
RECURSIVE dedupe_title_from(_, _, _, _)
dedupe_title_from(evs, i, seen, uniq) ==
    IF i > Len(evs) THEN uniq
    ELSE IF evs[i].title \notin seen
    THEN dedupe_title_from(evs, i + 1, seen \cup {evs[i].title}, Append(uniq, evs[i]))
    ELSE dedupe_title_from(evs, i + 1, seen, uniq)

dedupe_by_title(evs) == dedupe_title_from(evs, 1, {}, <<>>)

dedupe(evs) == dedupe_from(evs, 1, {}, <<>>)

\* m.lower().replace(' ', '')
normalize(m) == replace(lower(m), " ", <<>>)

InSeq(x, seq) == \E i \in 1..Len(seq) : seq[i] = x

\* the year test of filter_events: the event is not skipped
year_keeps(e, current_year) ==
    ~(e.start_dt.y # current_year /\ (e.end_dt = NoDateTime \/ e.end_dt.y # current_year))

\* the month test with the start month alone
month_keeps_start_only(e, months) ==
    IF months # <<>> THEN InSeq(e.start_dt.m, months) ELSE TRUE

\* the month test of filter_events: the event is not skipped
month_keeps(e, months) ==
    IF months # <<>>
    THEN ~(/\ ~InSeq(e.start_dt.m, months)
           /\ (IF e.end_dt # NoDateTime THEN ~InSeq(e.end_dt.m, months) ELSE TRUE))
    ELSE TRUE

\* the mode test with `pat in mval` alone
mode_keeps_one_way(e, modes) ==
    IF modes # <<>>
    THEN \E i \in 1..Len(modes) : contains(normalize(e.mode), normalize(modes[i]))
    ELSE TRUE

\* the mode test of filter_events: the event is not skipped
mode_keeps(e, modes) ==
    IF modes # <<>>
    THEN LET mval == normalize(e.mode)
         IN  \E i \in 1..Len(modes) :
                 \/ contains(mval, normalize(modes[i]))
                 \/ contains(normalize(modes[i]), mval)
    ELSE TRUE

filter_keeps(e, months, modes, current_year) ==
    year_keeps(e, current_year) /\ month_keeps(e, months) /\ mode_keeps(e, modes)

filter_events(evs, months, modes, current_year) ==
    SelectSeq(evs, LAMBDA e : filter_keeps(e, months, modes, current_year))

\* start_dt order of the sort key
dt_less(a, b) ==
    \/ a.y < b.y
    \/ a.y = b.y /\ a.m < b.m
    \/ a.y = b.y /\ a.m = b.m /\ a.d < b.d
    \/ a.y = b.y /\ a.m = b.m /\ a.d = b.d /\ a.h < b.h
    \/ a.y = b.y /\ a.m = b.m /\ a.d = b.d /\ a.h = b.h /\ a.mi < b.mi

\* list.sort(key=start_dt): stable, an insertion after the last element
\* that is not later
RECURSIVE insert_sorted(_, _)
insert_sorted(sorted, e) ==
    IF sorted = <<>> THEN <<e>>
    ELSE IF dt_less(e.start_dt, sorted[Len(sorted)].start_dt)
    THEN Append(insert_sorted(SubSeq(sorted, 1, Len(sorted) - 1), e), sorted[Len(sorted)])
    ELSE Append(sorted, e)

RECURSIVE sort_by_start(_)
sort_by_start(evs) ==
    IF evs = <<>> THEN <<>>
    ELSE insert_sorted(sort_by_start(SubSeq(evs, 1, Len(evs) - 1)), evs[Len(evs)])

\* -------------------------------------------------------------- printing

AUML == "auml"

\* str(n) and the two- and four-digit fields of strftime
RECURSIVE str(_)
str(n) == IF n < 10 THEN <<DigitChar(n)>> ELSE Append(str(n \div 10), DigitChar(n % 10))

two(n) == <<DigitChar(n \div 10), DigitChar(n % 10)>>
four(n) == two(n \div 100) \o two(n % 100)

\* strftime('%d.%m.%Y') and strftime('%H:%M')
strf_date(dt) == two(dt.d) \o <<".">> \o two(dt.m) \o <<".">> \o four(dt.y)
strf_time(dt) == two(dt.h) \o <<":">> \o two(dt.mi)

\* sep.join(texts)
RECURSIVE join(_, _)
join(sep, texts) ==
    IF texts = <<>> THEN <<>>
    ELSE IF Len(texts) = 1 THEN texts[1]
    ELSE texts[1] \o sep \o join(sep, Tail(texts))

headers ==
    << <<"C", "o", "n", "t", "e", "s", "t">>,
       <<"S", "t", "a", "r", "t", "d", "a", "t", "u", "m">>,
       <<"S", "t", "a", "r", "t", "z", "e", "i", "t">>,
       <<"E", "n", "d", "d", "a", "t", "u", "m">>,
       <<"E", "n", "d", "z", "e", "i", "t">>,
       <<"M", "o", "d", "e">>,
       <<"N", "o", "t", "i", "z">> >>

Placeholder == <<"k", "e", "i", "n", "e", " ", "E", "i", "n", "t", "r", AUML, "g", "e">>

\* the cells of an event's table row
table_row(e) ==
    << e.title, strf_date(e.start_dt), strf_time(e.start_dt),
       IF e.end_dt # NoDateTime THEN strf_date(e.end_dt) ELSE <<>>,
       IF e.end_dt # NoDateTime THEN strf_time(e.end_dt) ELSE <<>>,
       e.mode, e.note >>

Max(a, b) == IF a >= b THEN a ELSE b

RECURSIVE MaxLen(_, _, _)
MaxLen(rows, i, w) ==
    IF rows = <<>> THEN w ELSE MaxLen(Tail(rows), i, Max(w, Len(Head(rows)[i])))

column_widths(rows) == [i \in 1..Len(headers) |-> MaxLen(rows, i, Len(headers[i]))]

RECURSIVE Sum(_)
Sum(ws) == IF ws = <<>> THEN 0 ELSE Head(ws) + Sum(Tail(ws))

Repeat(c, n) == [i \in 1..n |-> c]

\* "{:<w}".format(cell)
ljust(cell, w) == cell \o Repeat(" ", Max(0, w - Len(cell)))

\* fmt.format(*cells)
format_line(cells, widths) ==
    join(<<" ", " ">>, [i \in 1..Len(cells) |-> ljust(cells[i], widths[i])])

rule_line(widths) == Repeat("-", Sum(widths) + 2 * (Len(widths) - 1))

\* format_and_print_events with the placeholder in place of the whole table
format_and_print_events_bare(evs) ==
    LET rows == [i \in 1..Len(evs) |-> table_row(evs[i])]
        widths == column_widths(rows)
    IN  IF rows = <<>> THEN <<Placeholder>>
        ELSE <<format_line(headers, widths), rule_line(widths)>>
             \o [i \in 1..Len(rows) |-> format_line(rows[i], widths)]

\* the lines format_and_print_events prints
format_and_print_events(evs) ==
    LET rows == [i \in 1..Len(evs) |-> table_row(evs[i])]
        widths == column_widths(rows)
    IN  <<format_line(headers, widths), rule_line(widths)>>
        \o (IF rows = <<>> THEN <<Placeholder>>
            ELSE [i \in 1..Len(rows) |-> format_line(rows[i], widths)])

base_title == <<"C", "o", "n", "t", "e", "s", "t", "s">>

\* the header line main prints before the table
header_line(a) ==
    base_title
    \o (IF a.month # <<>>
        THEN <<" ", "M", "O", "N", "A", "T", "E", "=">> \o join(<<",">>, [i \in 1..Len(a.month) |-> str(a.month[i])])
        ELSE <<>>)
    \o (IF a.mode # <<>> THEN <<" ", "M", "O", "D", "E", "~", "'">> \o join(<<",">>, a.mode) \o <<"'">> ELSE <<>>)
    \o (IF a.purge THEN <<" ", "-", " ", "P", "U", "R", "G", "E">> ELSE <<>>)

cal_name(a) ==
    base_title \o (IF a.mode # <<>> THEN <<" ", "-", " ">> \o join(<<",">>, a.mode) ELSE <<>>)

WarnEmpty == "Warnung: Keine Events gefiltert, erstelle leere ICS-Datei."
WriteOk == "ICS-Datei erfolgreich erstellt."
WriteOkPurge == "ICS-Datei erfolgreich erstellt (PURGE: METHOD=CANCEL, STATUS=CANCELLED)."
WriteError == "Fehler beim Schreiben der ICS-Datei"

\* ------------------------------------------------------- export_to_ics

NoCalendar == [built |-> FALSE, calname |-> <<>>, method |-> "", components |-> <<>>]

\* ics_event without the status line of a purge
ics_event_unmarked(e, k, purge) ==
    [uid |-> k,
     dtstart |-> e.start_dt,
     dtend |-> e.end_dt,
     summary |-> e.title,
     description |-> <<"M", "o", "d", "e", ":", " ">> \o e.mode
                     \o (IF e.note # <<>> THEN <<"\n", "N", "o", "t", "i", "z", ":", " ">> \o e.note ELSE <<>>),
     status |-> ""]

\* one VEVENT: uid is the entry's number, standing for a fresh uuid
ics_event(e, k, purge) ==
    [uid |-> k,
     dtstart |-> e.start_dt,
     dtend |-> e.end_dt,
     summary |-> e.title,
     description |-> <<"M", "o", "d", "e", ":", " ">> \o e.mode
                     \o (IF e.note # <<>> THEN <<"\n", "N", "o", "t", "i", "z", ":", " ">> \o e.note ELSE <<>>),
     status |-> IF purge THEN "CANCELLED" ELSE ""]

\* the calendar export_to_ics builds
build_calendar(evs, calname, purge) ==
    [built |-> TRUE,
     calname |-> calname,
     method |-> IF purge THEN "CANCEL" ELSE "",
     components |-> [k \in 1..Len(evs) |-> ics_event(evs[k], k, purge)]]

\* ------------------------------------------------------------ the run

\* the page has at most MaxRows rows
MaxRows == 3

\* -m / -d / -o / -p as argparse hands them over; an option not given is
\* the empty sequence (None) or FALSE
MonthArgs == { <<>>, <<7>>, <<1, 5>> }
ModeArgs == { <<>>, <<<<"c", "w">>>>, <<<<"x">>, <<"S", "S", "B", " ", "C">>>> }

\* no option given
NoArgs == [month |-> <<>>, mode |-> <<>>, ics |-> FALSE, purge |-> FALSE]

VARIABLES
    today,                \* date.today()
    pc,                   \* where main is
    args,                 \* the command line, from where main first reads it
    row,                  \* the row the scan read last
    nrows,                \* rows read so far
    current_start_date,   \* the tracked pair of scrape_all_contests
    current_end_date,
    events,               \* scrape_all_contests' result
    unique,               \* main: after the de-duplication
    filtered,             \* main: after filter_events and the sort
    out,                  \* the lines printed so far
    cal,                  \* the calendar export_to_ics built
    written,              \* the ICS file was written
    error                 \* the unhandled exception that ended the run

vars ==
    <<today, pc, args, row, nrows, current_start_date, current_end_date,
      events, unique, filtered, out, cal, written, error>>

Init ==
    /\ today \in Todays
    /\ pc = "fetch"
    /\ args = NoArgs
    /\ row = NoRow
    /\ nrows = 0
    /\ current_start_date = NoDate
    /\ current_end_date = NoDate
    /\ events = <<>>
    /\ unique = <<>>
    /\ filtered = <<>>
    /\ out = <<>>
    /\ cal = NoCalendar
    /\ written = FALSE
    /\ error = "none"

\* requests.get and raise_for_status: the page arrives, or the run ends
Fetch ==
    /\ pc = "fetch"
    /\ \E ok \in BOOLEAN :
          /\ pc' = IF ok THEN "scan" ELSE "crashed"
          /\ error' = IF ok THEN "none" ELSE "network"
    /\ UNCHANGED <<today, args, row, nrows, current_start_date, current_end_date,
                   events, unique, filtered, out, cal, written>>

\* one pass of `for row in rows`
ScanRow ==
    /\ pc = "scan"
    /\ nrows < MaxRows
    /\ \E r \in Rows :
          LET after == row_step(r, current_start_date, current_end_date, events, today)
          IN  /\ row' = r
              /\ current_start_date' = after.start
              /\ current_end_date' = after.end
              /\ events' = after.events
    /\ nrows' = nrows + 1
    /\ UNCHANGED <<today, pc, args, unique, filtered, out, cal, written, error>>

\* the rows are used up: scrape_all_contests returns events, its locals end
ScanReturn ==
    /\ pc = "scan"
    /\ pc' = "dedupe"
    /\ row' = NoRow
    /\ current_start_date' = NoDate
    /\ current_end_date' = NoDate
    /\ UNCHANGED <<today, args, nrows, events, unique, filtered, out, cal, written, error>>

\* main: the de-duplication loop
Dedupe ==
    /\ pc = "dedupe"
    /\ unique' = dedupe(events)
    /\ pc' = "filter"
    /\ UNCHANGED <<today, args, row, nrows, current_start_date, current_end_date,
                   events, filtered, out, cal, written, error>>

\* main: filter_events with the months and modes of the command line, which
\* main reads here first, and the sort
FilterSort ==
    /\ pc = "filter"
    /\ \E a \in [month : MonthArgs, mode : ModeArgs, ics : BOOLEAN, purge : BOOLEAN] :
          /\ args' = a
          /\ filtered' = sort_by_start(filter_events(unique, a.month, a.mode, today.y))
    /\ pc' = "print"
    /\ UNCHANGED <<today, row, nrows, current_start_date, current_end_date,
                   events, unique, out, cal, written, error>>

\* main: the header line and format_and_print_events
PrintTable ==
    /\ pc = "print"
    /\ out' = out \o <<header_line(args)>> \o format_and_print_events(filtered)
    /\ pc' = IF args.ics THEN "export" ELSE "done"
    /\ UNCHANGED <<today, args, row, nrows, current_start_date, current_end_date,
                   events, unique, filtered, cal, written, error>>

\* main: the warning for an empty list, and export_to_ics. The directory of
\* the target exists or not, os.makedirs succeeds or raises, and writing the
\* file succeeds or raises.
ExportIcs ==
    /\ pc = "export"
    /\ \E dir_exists \in BOOLEAN, makedirs_ok \in BOOLEAN, write_ok \in BOOLEAN :
          LET warned == out \o (IF filtered = <<>> THEN <<WarnEmpty>> ELSE <<>>)
          IN  IF ~dir_exists /\ ~makedirs_ok
              THEN /\ pc' = "crashed"
                   /\ error' = "makedirs"
                   /\ out' = warned
                   /\ UNCHANGED <<cal, written>>
              ELSE /\ cal' = build_calendar(filtered, cal_name(args), args.purge)
                   /\ written' = write_ok
                   /\ out' = Append(warned,
                                    IF ~write_ok THEN WriteError
                                    ELSE IF args.purge THEN WriteOkPurge ELSE WriteOk)
                   /\ pc' = "done"
                   /\ UNCHANGED error
    /\ UNCHANGED <<today, args, row, nrows, current_start_date, current_end_date,
                   events, unique, filtered>>

Next ==
    \/ Fetch
    \/ ScanRow
    \/ ScanReturn
    \/ Dedupe
    \/ FilterSort
    \/ PrintTable
    \/ ExportIcs

Spec == Init /\ [][Next]_vars

\* ------------------------------------------------------------ properties

Day(y, m, d) == [y |-> y, m |-> m, d |-> d]
At(y, m, d, h, mi) == [y |-> y, m |-> m, d |-> d, h |-> h, mi |-> mi]

IsHeaderRow(r) == r.ntds > 0 /\ r.hasStrong
IsContestRow(r) == r.ntds > 0 /\ ~r.hasStrong /\ r.hasLink

\* the row loop has just read a row
RowRead == pc = "scan" /\ nrows' = nrows + 1

\* C1: after a header row whose text is the range "06.01.-07.01." the tracked
\* pair is 6 January and 7 January of the current year, and after one whose
\* text is the single day "06.01." both tracked dates are 6 January of the
\* current year.
C1_HeaderDatesInCurrentYear ==
    (pc = "scan" /\ IsHeaderRow(row)) =>
        /\ row.strong = HdrPlainRange =>
               /\ current_start_date = Day(today.y, 1, 6)
               /\ current_end_date = Day(today.y, 1, 7)
        /\ row.strong = HdrPlainDay =>
               /\ current_start_date = Day(today.y, 1, 6)
               /\ current_end_date = Day(today.y, 1, 6)

\* the contest row of the end-to-end example: "Test Contest", "15:00-18:00Z", "CW"
ExampleRow == ContestRow(4, TestContest, TimeRange, CW, <<>>)

\* C2: in 2025 the header row "Sa 06.-So 07.01." sets the tracked pair to
\* 2025-01-06 and 2025-01-07, and the contest row "Test Contest",
\* "15:00-18:00Z", "CW" read directly after it appends exactly one event:
\* "Test Contest" from 2025-01-06T15:00 to 2025-01-07T18:00, mode "CW".
C2_EndToEndExample ==
    [][(RowRead /\ today.y = 2025) =>
          /\ row' = HeaderRow(HdrShortRange) =>
                 /\ current_start_date' = Day(2025, 1, 6)
                 /\ current_end_date' = Day(2025, 1, 7)
          /\ (row = HeaderRow(HdrShortRange) /\ row' = ExampleRow) =>
                 events' = Append(events,
                                  [title |-> TestContest,
                                   start_dt |-> At(2025, 1, 6, 15, 0),
                                   end_dt |-> At(2025, 1, 7, 18, 0),
                                   mode |-> CW,
                                   note |-> <<>>])]_vars

\* C3: reading a row that is not a header row leaves the tracked pair as it
\* was, and an event appended by a row carries the tracked start date, which
\* only header rows write.
C3_OnlyHeadersWriteTrackedDates ==
    [][RowRead =>
          /\ ~IsHeaderRow(row') =>
                 /\ current_start_date' = current_start_date
                 /\ current_end_date' = current_end_date
          /\ events' # events =>
                 /\ Len(events') = Len(events) + 1
                 /\ Day(events'[Len(events')].start_dt.y,
                        events'[Len(events')].start_dt.m,
                        events'[Len(events')].start_dt.d) = current_start_date]_vars

\* C3's case: a row without a link was read while a pair set by a header was
\* tracked, after an event was emitted under that pair
C3_Witness ==
    /\ pc = "scan"
    /\ row.ntds > 0 /\ ~row.hasStrong /\ ~row.hasLink
    /\ current_start_date # NoDate
    /\ events # <<>>
    /\ Day(events[1].start_dt.y, events[1].start_dt.m, events[1].start_dt.d)
           = current_start_date

\* the time cell of a contest row and its two parts around the first "-"
TimeCell(r) == IF r.ntds > 1 THEN replace(strip(r.time), NBSP, <<" ">>) ELSE <<>>
StartPart(r) == strip(partition(TimeCell(r), "-")[1])
EndPart(r) == strip(partition(TimeCell(r), "-")[3])
ParsesAsTime(txt) == parse(txt, FALSE, today).ok
TimeOf(txt) == parse(txt, FALSE, today)

\* C9: a contest row read while a start date is tracked appends an event iff
\* the start part of its time cell parses; the event's start_dt is the
\* tracked start date at that time, and its end_dt is the tracked end date (the
\* tracked start date when none is tracked) at the end part's time when the
\* end part parses, and None when it does not.
C9_StartDecidesEndOptional ==
    [][(RowRead /\ IsContestRow(row') /\ current_start_date # NoDate) =>
          IF ParsesAsTime(StartPart(row'))
          THEN /\ Len(events') = Len(events) + 1
               /\ SubSeq(events', 1, Len(events)) = events
               /\ events'[Len(events')].start_dt
                      = combine(current_start_date, TimeOf(StartPart(row')))
               /\ events'[Len(events')].end_dt
                      = IF ParsesAsTime(EndPart(row'))
                        THEN combine(IF current_end_date # NoDate THEN current_end_date
                                     ELSE current_start_date,
                                     TimeOf(EndPart(row')))
                        ELSE NoDateTime
          ELSE events' = events]_vars

\* C9's case: a contest row whose end part "xx" does not parse was read under
\* a tracked date and its event was appended without an end
C9_Witness ==
    /\ pc = "scan"
    /\ IsContestRow(row)
    /\ row.time = TimeBadEnd
    /\ events # <<>>
    /\ events[Len(events)].start_dt # NoDateTime
    /\ events[Len(events)].end_dt = NoDateTime
    /\ events[Len(events)].title = strip(row.link)

\* main is past the de-duplication / past the filter and sort / past the table
Deduped == pc \in {"filter", "print", "export", "done"} \/ error = "makedirs"
Filtered == pc \in {"print", "export", "done"} \/ error = "makedirs"
Printed == pc \in {"export", "done"} \/ error = "makedirs"

Key(e) == <<e.title, e.start_dt>>

\* the positions of evs that hold the first event of their key
FirstOfKey(evs) ==
    {i \in 1..Len(evs) : \A j \in 1..(i - 1) : Key(evs[j]) # Key(evs[i])}

\* C4: unique is events restricted to the first position of every
\* (title, start_dt) key, in the order of events: as many entries as there are
\* keys, taken from increasing first positions.
C4_DedupeKeepsFirstOfEachKey ==
    Deduped =>
        /\ Len(unique) = Cardinality(FirstOfKey(events))
        /\ \E f \in [1..Len(unique) -> FirstOfKey(events)] :
              /\ \A k \in 1..Len(unique) : unique[k] = events[f[k]]
              /\ \A k \in 1..(Len(unique) - 1) : f[k] < f[k + 1]

\* C4's case: two events with one key that differ in mode and note, of which
\* the first alone is kept
C4_Witness ==
    /\ pc = "filter"
    /\ Len(events) = 2
    /\ Key(events[1]) = Key(events[2])
    /\ events[1].mode # events[2].mode
    /\ events[1].note # events[2].note
    /\ unique = <<events[1]>>

Kept(e) == \E k \in 1..Len(filtered) : filtered[k] = e

MonthSet == {args.month[i] : i \in 1..Len(args.month)}

\* the month filter as stated: no months given, or the start month is one of
\* them, or there is an end whose month is one of them
MonthClaim(e) ==
    \/ args.month = <<>>
    \/ e.start_dt.m \in MonthSet
    \/ e.end_dt # NoDateTime /\ e.end_dt.m \in MonthSet

\* a text in lower case without its spaces, and `a in b`
Norm(t) == lower(SelectSeq(t, LAMBDA c : c # " "))
IsSubstring(a, b) == \E i \in 0..(Len(b) - Len(a)) : SubSeq(b, i + 1, i + Len(a)) = a

\* the mode filter as stated: no patterns given, or a pattern that is inside
\* the mode or has the mode inside it, both normalised
ModeClaim(e) ==
    \/ args.mode = <<>>
    \/ \E i \in 1..Len(args.mode) :
          \/ IsSubstring(Norm(args.mode[i]), Norm(e.mode))
          \/ IsSubstring(Norm(e.mode), Norm(args.mode[i]))

\* C5: of the current-year events that pass the mode filter, filter_events
\* keeps exactly those whose start month, or whose end month when they have an
\* end, is among the months given; with no months given it keeps them all.
C5_MonthFilter ==
    Filtered =>
        \A i \in 1..Len(unique) :
            (unique[i].start_dt.y = today.y /\ ModeClaim(unique[i])) =>
                /\ Kept(unique[i]) <=> MonthClaim(unique[i])
                /\ unique[i].end_dt = NoDateTime /\ args.month # <<>> =>
                       (Kept(unique[i]) <=> unique[i].start_dt.m \in MonthSet)

\* C5's case: with -m 7 an event from June to July is kept for its end month
C5_Witness ==
    /\ pc = "print"
    /\ args.month = <<7>>
    /\ \E k \in 1..Len(filtered) :
          /\ filtered[k].start_dt.m = 6
          /\ filtered[k].end_dt # NoDateTime
          /\ filtered[k].end_dt.m = 7

\* C6: of the current-year events that pass the month filter, filter_events
\* keeps exactly those for which some pattern, in lower case and without
\* spaces, is inside the mode or has the mode inside it; the pattern "cw"
\* keeps the mode "CW" and drops the mode "SSB"; with no patterns it keeps
\* them all.
C6_ModeFilter ==
    Filtered =>
        \A i \in 1..Len(unique) :
            (unique[i].start_dt.y = today.y /\ MonthClaim(unique[i])) =>
                /\ Kept(unique[i]) <=> ModeClaim(unique[i])
                /\ args.mode = << <<"c", "w">> >> /\ unique[i].mode = CW => Kept(unique[i])
                /\ args.mode = << <<"c", "w">> >> /\ unique[i].mode = SSB => ~Kept(unique[i])

\* C6's case: with -d cw a "CW" event is kept and an "SSB" event is dropped
C6_Witness ==
    /\ pc = "print"
    /\ args.mode = << <<"c", "w">> >>
    /\ \E i \in 1..Len(unique) : unique[i].mode = CW /\ Kept(unique[i])
    /\ \E i \in 1..Len(unique) : unique[i].mode = SSB /\ ~Kept(unique[i])

\* C7: the calendar export_to_ics builds has METHOD:CANCEL and a
\* STATUS:CANCELLED in every entry when purge is set, neither marker when it
\* is not, and exactly one entry per event of the list, in the list's order.
C7_PurgeMarkersAndOneEntryPerEvent ==
    cal.built =>
        /\ cal.method = "CANCEL" <=> args.purge
        /\ ~args.purge => cal.method = ""
        /\ Len(cal.components) = Len(filtered)
        /\ \A k \in 1..Len(cal.components) :
              /\ cal.components[k].status = "CANCELLED" <=> args.purge
              /\ ~args.purge => cal.components[k].status = ""
              /\ cal.components[k].summary = filtered[k].title
              /\ cal.components[k].dtstart = filtered[k].start_dt

\* C7's case: a purge export of two events
C7_Witness ==
    /\ pc = "done"
    /\ cal.built
    /\ args.purge
    /\ Len(filtered) = 2
    /\ Len(cal.components) = 2
    /\ cal.components[2].status = "CANCELLED"

\* C8: a run that exports ends normally, and when the file could not be
\* produced its last line is the failure message.
C8_ExportFailureNotFatal ==
    (args.ics /\ pc \in {"done", "crashed"}) =>
        /\ pc = "done"
        /\ error = "none"
        /\ ~written => out[Len(out)] = WriteError

Sp2 == <<" ", " ">>

\* "Contest  Startdatum  Startzeit  Enddatum  Endzeit  Mode  Notiz"
ColumnHeaderLine ==
    <<"C", "o", "n", "t", "e", "s", "t">> \o Sp2
    \o <<"S", "t", "a", "r", "t", "d", "a", "t", "u", "m">> \o Sp2
    \o <<"S", "t", "a", "r", "t", "z", "e", "i", "t">> \o Sp2
    \o <<"E", "n", "d", "d", "a", "t", "u", "m">> \o Sp2
    \o <<"E", "n", "d", "z", "e", "i", "t">> \o Sp2
    \o <<"M", "o", "d", "e">> \o Sp2
    \o <<"N", "o", "t", "i", "z">>

\* the rule under it: one dash per character of the header line
DashRule == [i \in 1..Len(ColumnHeaderLine) |-> "-"]

\* C10 as stated: for an empty list the table is the placeholder line alone,
\* without the column-header line and the dash rule.
C10_PlaceholderInsteadOfTable ==
    (Printed /\ filtered = <<>>) =>
        /\ out[2] = Placeholder
        /\ \A k \in 1..Len(out) : out[k] # ColumnHeaderLine /\ out[k] # DashRule

\* C10 amended: for an empty list the table is the column-header line, the
\* dash rule and then the placeholder line in place of the event rows.
C10_PlaceholderInPlaceOfRows ==
    (Printed /\ filtered = <<>>) =>
        /\ Len(out) >= 4
        /\ SubSeq(out, 2, 4) = <<ColumnHeaderLine, DashRule, Placeholder>>

\* C10's case: the filters left nothing of a non-empty list and the table
\* was printed
C10_Witness ==
    /\ pc = "done"
    /\ unique # <<>>
    /\ filtered = <<>>
    /\ Len(out) = 4
    /\ out[4] = Placeholder

====
